---- MODULE Spec2Model ----
(***************************************************************************)
(* collab-todo: the list/item API routes, the link identifiers and the     *)
(* permission check, as a state machine over the two MongoDB collections   *)
(* (TodoList, TodoItem).  Every request handler is cut at its awaits on    *)
(* the store: one action per store operation, with the synchronous code    *)
(* before and after it folded into the same step, so that concurrent       *)
(* requests interleave exactly where the runtime lets them.                *)
(***************************************************************************)
EXTENDS Integers, Sequences, FiniteSets, TLC

\* ------------------------------------------------------------------ bounds
\* documents ever inserted into TodoList by POST /api/lists
MaxCreated == 1
\* passes of the create loop that one request is followed through
MaxPasses == 6
\* documents ever inserted into TodoItem
MaxItems == 3
\* documents inserted into TodoItem in the runs that follow the list routes as well
MaxListItems == 1
\* largest value of the one random byte the model lets vary
MaxByte == 2
\* the clock runs 0..MaxTime
MaxTime == 1
\* largest `order` a PATCH body carries
MaxOrder == 1
\* the clock is advanced by a quarter of an hour at most MaxAdvance times
MaxAdvance == 4
\* at most MaxUsers documents are inserted into the users collection
MaxUsers == 2

\* ------------------------------------------------------- program constants
IdLength == 9
MaxAttempts == 5
MaxTitleLength == 200
MaxTextLength == 500
MinPasswordLength == 8

Procs == {1, 2}
Users == {"u1", "u2"}
NoAuth == "anonymous"
NoUser == "nobody"
NoId == <<>>
NoDoc == [absent |-> TRUE]

\* ------------------------------------------------------------- identifiers
chars ==
  << "a","b","c","d","e","f","g","h","i","j","k","l","m","n","o","p","q","r",
     "s","t","u","v","w","x","y","z","0","1","2","3","4","5","6","7","8","9" >>

CharSet == { chars[i] : i \in 1..Len(chars) }

\* randomBytes(length * 2): 18 bytes, of which only the 9th varies here
RandomBytes == { [i \in 1..(IdLength * 2) |-> IF i = IdLength THEN b ELSE 0] : b \in 0..MaxByte }

generateShareId(bytes) == [i \in 1..IdLength |-> chars[(bytes[i] % Len(chars)) + 1]]

GenIds == { generateShareId(b) : b \in RandomBytes }

\* Faulty variant: the pattern is matched without regard to case.
isValidShareIdAnyCase(id) ==
  Len(id) = IdLength /\ \A i \in 1..Len(id) : id[i] \in CharSet \cup { "A" }

isValidShareId(id) == Len(id) = IdLength /\ \A i \in 1..Len(id) : id[i] \in CharSet

\* malformed path segments: too short, an uppercase letter
BadIds == { <<"a","b","c">>, [i \in 1..IdLength |-> IF i = 1 THEN "A" ELSE "a"] }

PathIds == GenIds \cup BadIds

\* ------------------------------------------------------------------ strings
\* a request string is a sequence of characters; " " is the only whitespace
RECURSIVE TrimLeft(_)
TrimLeft(s) == IF s # <<>> /\ Head(s) = " " THEN TrimLeft(Tail(s)) ELSE s

RECURSIVE TrimRight(_)
TrimRight(s) == IF s # <<>> /\ s[Len(s)] = " " THEN TrimRight(SubSeq(s, 1, Len(s) - 1)) ELSE s

trim(s) == TrimRight(TrimLeft(s))

\* a JSON body: the fields it carries (`has`) and their values.  A title or text
\* that is absent and one that is "" take the same `!body.title` branch.
NoBody == [has |-> {}, title |-> <<>>, text |-> <<>>, completed |-> FALSE, order |-> 0]

Titles == { <<>>, <<" ">>, <<" ", "b">>, [i \in 1..(MaxTitleLength + 1) |-> "x"] }

TitleBodies == { [NoBody EXCEPT !.has = {"title"}, !.title = t] : t \in Titles }

Texts == { <<>>, <<" ">>, <<"m", " ">>, [i \in 1..(MaxTextLength + 1) |-> "x"] }

TextBodies == { [NoBody EXCEPT !.has = {"text"}, !.text = t] : t \in Texts }

\* PATCH bodies for an item: no field, a text, a completed flag, an order
ItemPatchBodies ==
  { NoBody } \cup TextBodies
    \cup { [NoBody EXCEPT !.has = {"completed"}, !.completed = TRUE] }
    \cup { [NoBody EXCEPT !.has = {"order"}, !.order = o] : o \in (-1)..MaxOrder }

\* itemId path segments: 0 is a well-formed ObjectId of no document, -1 is malformed
ItemPathIds == (-1)..MaxItems

ObjectIdIsValid(itemId) == itemId >= 0

\* ------------------------------------------------------------- credentials
\* the auth_token cookie: none, or a token whose signature/expiry is or is not good
NoToken == [present |-> FALSE]
Tokens == { NoToken } \cup [present : {TRUE}, userId : Users, good : BOOLEAN]

verifyToken(token) == IF token.good THEN token.userId ELSE NoAuth

\* Faulty variant: the cookie's payload is trusted without verifying the token.
getAuthContextUnverified(token) == IF ~token.present THEN NoAuth ELSE token.userId

getAuthContext(token) == IF ~token.present THEN NoAuth ELSE verifyToken(token)

\* ------------------------------------------------------------- accounts
\* x-forwarded-for / x-real-ip / 'unknown'
Ips == { "unknown" }

UpperCase == << "B", "C" >>
LowerCase == << "b", "c" >>

\* String.prototype.toLowerCase
toLowerCase(s) ==
  [i \in 1..Len(s) |->
     IF \E k \in 1..Len(UpperCase) : UpperCase[k] = s[i]
     THEN LowerCase[CHOOSE k \in 1..Len(UpperCase) : UpperCase[k] = s[i]]
     ELSE s[i]]

\* email.toLowerCase().trim()
normalizeEmail(email) == trim(toLowerCase(email))

\* the email field of a request body: absent (""), or an address
Emails == { <<>>, <<"b">>, <<"B">>, <<"b", " ">> }

\* the password field of a signup body: absent (""), too short, or long enough
Passwords == { <<>>, <<"p">>, [i \in 1..MinPasswordLength |-> "p"] }
\* the password field of a signin body: the same, or another password
SigninPasswords == Passwords \cup { [i \in 1..MinPasswordLength |-> "q"] }
NormalEmails == { normalizeEmail(e) : e \in Emails \ { <<>> } }

UserIds == 1..MaxUsers

\* ------------------------------------------------------------- rate limit
SignupLimit == 3
SigninLimit == 5
SignupWindowMs == 60 * 60 * 1000
SigninWindowMs == 15 * 60 * 1000
\* the clock's coarse step
QuarterHourMs == 15 * 60 * 1000

\* Map.get(key) === undefined
NoEntry == [count |-> 0, resetAt |-> 0]

\* the calls of one key: no window open yet, or a window opened at openedAt in which
\* `granted` calls were allowed and, if `refused`, a later one was not; `reopened` says
\* that the window before this one had refused a call
NoWindow == [open |-> FALSE, openedAt |-> 0, granted |-> 0, refused |-> FALSE, reopened |-> FALSE]
NoCall == [policy |-> "none", allowed |-> FALSE, expected |-> FALSE]
NoResponse == << 0, "none", 0 >>
\* a browser that has no auth_token cookie and was never given one
NoSession == [token |-> NoToken, cookie |-> NoToken, signedOut |-> FALSE]

\* `known` is what the lookup found for the address: "unread" before it, then whether
\* an account exists; `cookie` is the user the response's auth_token is issued to
AuthIdle ==
  [ pc |-> "idle", op |-> "none", email |-> <<>>, password |-> <<>>, uid |-> 0, status |-> 0,
    error |-> "none", cookie |-> 0, known |-> "unread" ]

\* ------------------------------------------------------------------ state
VARIABLES
  lists,      \* TodoList collection: _id -> document or NoDoc
  listCount,  \* documents ever inserted by POST /api/lists
  items,      \* TodoItem collection: _id -> document or NoDoc
  itemCount,  \* documents ever inserted into TodoItem
  now,        \* Date.now()
  req,        \* request slot -> the handler's position and locals
  viewer,     \* what the holder of a view link has been given and has read in responses
  users,          \* users collection: _id -> document or NoDoc
  emailIndex,     \* whether the users collection has a unique index on email
  signupAttempts, \* rate-limit.ts: Map ip -> RateLimitEntry
  signinAttempts, \* rate-limit.ts: Map normalized email -> RateLimitEntry
  areq,           \* request slot of the auth routes -> the handler's position and locals
  calls,          \* history: per key, the window the calls of the throttle fall in; the
                  \* last response to a signin without account and to one with a wrong password
  session         \* one browser session: the token the server issued to it, the auth_token
                  \* cookie the browser holds now, and whether it has signed out

listVars == << lists, listCount, items, itemCount, req, viewer >>
authVars == << users, emailIndex, signupAttempts, signinAttempts, areq, calls, session >>
vars == << lists, listCount, items, itemCount, now, req, viewer,
          users, emailIndex, signupAttempts, signinAttempts, areq, calls, session >>

\* _id 0 is a record written before viewId and userId existed
LegacyId == 0
ListIds == 0..MaxCreated
ItemIds == 1..MaxItems

Live(l) == lists[l] # NoDoc
LiveLists == { l \in ListIds : Live(l) }
LiveItems == { i \in ItemIds : items[i] # NoDoc }

\* `auth` is what getAuthContext makes of the request's cookie, whether or not the
\* handler asks for it; `verified` records that the cookie really carries a good token;
\* `backfilled` records that this request wrote a viewId into the list it read;
\* `passes` counts the times the create loop has generated a pair of identifiers.
Idle ==
  [ pc |-> "idle", op |-> "none", pathId |-> NoId, auth |-> NoAuth, verified |-> FALSE, body |-> NoBody,
    itemId |-> 0, lid |-> 0, list |-> NoDoc, shareId |-> NoId, viewId |-> NoId,
    attempts |-> 0, at |-> 0, status |-> 0, permission |-> "none", isOwner |-> FALSE,
    backfilled |-> FALSE, passes |-> 0 ]

Begin(op, pathId, token) ==
  [Idle EXCEPT !.op = op, !.pathId = pathId, !.auth = getAuthContext(token),
               !.verified = token.present /\ token.good]

\* the handler returns: its working locals are gone; the request, the document it
\* worked on and the response remain
Respond(r, status) ==
  [r EXCEPT !.pc = "done", !.status = status, !.body = NoBody, !.shareId = NoId, !.viewId = NoId,
            !.attempts = 0, !.at = 0]

Set(p, r) == req' = [req EXCEPT ![p] = r]

\* A handler returns its response in the same synchronous stretch as its last
\* store operation: nothing else runs between that operation and the return.
Quiet == \A p \in Procs : req[p].pc # "done"

\* what a handler keeps of the document findOne gave it
Snapshot(l) == [shareId |-> lists[l].shareId, viewId |-> lists[l].viewId, userId |-> lists[l].userId]

Init ==
  /\ lists = [l \in ListIds |->
                IF l = LegacyId
                THEN [ userId |-> NoUser, shareId |-> generateShareId([i \in 1..(IdLength * 2) |-> 0]),
                       viewId |-> NoId, title |-> <<"a">>, updatedAt |-> 0 ]
                ELSE NoDoc]
  /\ listCount = 0
  /\ items = [i \in ItemIds |-> NoDoc]
  /\ itemCount = 0
  /\ now = 0
  /\ req = [p \in Procs |-> Idle]
  /\ viewer = [known |-> {}, shared |-> {}]
  /\ users = [u \in UserIds |-> NoDoc]
  /\ emailIndex = FALSE
  /\ signupAttempts = [ip \in Ips |-> NoEntry]
  /\ signinAttempts = [e \in NormalEmails |-> NoEntry]
  /\ areq = [p \in Procs |-> AuthIdle]
  /\ calls = [signup |-> [ip \in Ips |-> NoWindow], signin |-> [e \in NormalEmails |-> NoWindow], last |-> NoCall,
              noAccount |-> NoResponse, wrongPassword |-> NoResponse]
  /\ session = NoSession

\* ------------------------------------------------------------- permission
detectPermission(list, id) == IF list.shareId = id THEN "edit" ELSE "view"

\* Faulty variant: any signed-in user passes the ownership check.
IsOwnerAnySignedIn(list, userId) == TRUE

\* the ownership check of DELETE: !list.userId || list.userId.toString() !== auth.userId
IsOwner(list, userId) == list.userId # NoUser /\ list.userId = userId

\* Faulty variant: the page lets the viewer's identity decide the link permission.
ResolveAccessOwnerAsViewer(list, id, currentUserId) ==
  [ permission |-> IF currentUserId # NoAuth /\ list.userId = currentUserId THEN "view"
                   ELSE detectPermission(list, id),
    isOwner |-> currentUserId # NoAuth /\ list.userId # NoUser /\ list.userId = currentUserId ]

\* what the list page hands to the client: permission from the link, isOwner from the cookie
ResolveAccess(list, id, currentUserId) ==
  [ permission |-> detectPermission(list, id),
    isOwner |-> currentUserId # NoAuth /\ list.userId # NoUser /\ list.userId = currentUserId ]

\* findOne({ $or: [{ shareId }, { viewId: shareId }] })
MatchEither(id) == { l \in LiveLists : lists[l].shareId = id \/ lists[l].viewId = id }

\* findOne({ shareId })
MatchShareId(id) == { l \in LiveLists : lists[l].shareId = id }

\* ---------------------------------------------------------------- the clock
Tick ==
  /\ Quiet
  /\ now < MaxTime
  /\ now' = now + 1
  /\ UNCHANGED << lists, listCount, items, itemCount, req, viewer, authVars >>

\* ------------------------------------------------------- POST /api/lists
\* the four-way collision query of the create route
CreateCollision(shareId, viewId) ==
  \E l \in LiveLists :
    \/ lists[l].shareId = shareId
    \/ lists[l].viewId = shareId
    \/ lists[l].shareId = viewId
    \/ lists[l].viewId = viewId

InFlightCreates == Cardinality({ p \in Procs : req[p].op = "createList" /\ req[p].pc \in {"cl_loop", "cl_insert"} })

\* requireAuth, body validation: everything before the first store operation
CreateListStart(p, token, body) ==
  /\ Quiet
  /\ req[p].pc = "idle"
  /\ listCount + InFlightCreates < MaxCreated
  /\ LET auth == getAuthContext(token)
         r == Begin("createList", NoId, token)
     IN  IF auth = NoAuth THEN Set(p, Respond(r, 401))
         ELSE IF body.title = <<>> THEN Set(p, Respond(r, 400))
         ELSE IF Len(trim(body.title)) = 0 THEN Set(p, Respond(r, 400))
         ELSE IF Len(body.title) > MaxTitleLength THEN Set(p, Respond(r, 400))
         ELSE Set(p, [r EXCEPT !.pc = "cl_loop", !.body = body])
  /\ UNCHANGED << lists, listCount, items, itemCount, now, viewer, authVars >>

\* one pass of the do/while: generate both ids, then findOne for a collision.
\* `continue` on shareId === viewId jumps to `while (true)` and re-enters the loop
\* without counting an attempt.
CreateListLoop(p) ==
  /\ Quiet
  /\ req[p].pc = "cl_loop"
  /\ req[p].passes < MaxPasses
  /\ \E b1 \in RandomBytes, b2 \in RandomBytes :
       LET shareId == generateShareId(b1)
           viewId == generateShareId(b2)
           r == [req[p] EXCEPT !.passes = @ + 1]
       IN  IF shareId = viewId THEN Set(p, r)
           ELSE IF ~CreateCollision(shareId, viewId)
                THEN Set(p, [r EXCEPT !.pc = "cl_insert", !.shareId = shareId, !.viewId = viewId])
           ELSE IF r.attempts + 1 >= MaxAttempts THEN Set(p, Respond(r, 500))
           ELSE Set(p, [r EXCEPT !.attempts = @ + 1])
  /\ UNCHANGED << lists, listCount, items, itemCount, now, viewer, authVars >>

\* insertOne(newList); the response is the serialized new document
CreateListInsert(p) ==
  /\ Quiet
  /\ req[p].pc = "cl_insert"
  /\ LET newList == [ userId |-> req[p].auth, shareId |-> req[p].shareId, viewId |-> req[p].viewId,
                      title |-> trim(req[p].body.title), updatedAt |-> now ]
         id == listCount + 1
     IN  /\ lists' = [lists EXCEPT ![id] = newList]
         /\ listCount' = id
         /\ Set(p, [Respond(req[p], 201) EXCEPT !.lid = id, !.list = [shareId |-> newList.shareId, viewId |-> newList.viewId, userId |-> newList.userId]])
  /\ UNCHANGED << items, itemCount, now, viewer, authVars >>

\* ------------------------------------------------------- GET /api/lists/[shareId]
\* (the list page runs the same lookup and backfill before rendering)
\* Faulty variant: the backfill query looks for the new viewId among viewIds only.
BackfillCollisionViewIdOnly(viewId) ==
  \E l \in LiveLists : lists[l].viewId = viewId

BackfillCollision(viewId) ==
  \E l \in LiveLists : lists[l].shareId = viewId \/ lists[l].viewId = viewId

\* Faulty variant: every read generates a viewId, whether or not the list has one.
NeedsBackfillAlways(list) == TRUE

\* if (!list.viewId)
NeedsBackfill(list) == list.viewId = NoId

GetListStart(p, token, pathId) ==
  /\ Quiet
  /\ req[p].pc = "idle"
  /\ LET r == Begin("getList", pathId, token)
     IN  IF ~isValidShareId(pathId) THEN Set(p, Respond(r, 400))
         ELSE IF MatchEither(pathId) = {} THEN Set(p, Respond(r, 404))
         ELSE \E l \in MatchEither(pathId) :
                Set(p, [r EXCEPT !.pc = IF NeedsBackfill(lists[l]) THEN "bf_loop" ELSE "get_items",
                                 !.lid = l, !.list = Snapshot(l)])
  /\ UNCHANGED << lists, listCount, items, itemCount, now, viewer, authVars >>

\* one pass of the backfill do/while: generate a viewId, findOne for a collision
BackfillLoop(p) ==
  /\ Quiet
  /\ req[p].pc = "bf_loop"
  /\ \E b \in RandomBytes :
       LET viewId == generateShareId(b)
       IN  IF ~BackfillCollision(viewId) THEN Set(p, [req[p] EXCEPT !.pc = "bf_write", !.viewId = viewId])
           ELSE IF req[p].attempts + 1 >= MaxAttempts
                THEN Set(p, Respond(req[p], 500))
           ELSE Set(p, [req[p] EXCEPT !.attempts = @ + 1])
  /\ UNCHANGED << lists, listCount, items, itemCount, now, viewer, authVars >>

\* updateOne({ _id }, { $set: { viewId, updatedAt: new Date() } }); list.viewId = viewId
BackfillWrite(p) ==
  /\ Quiet
  /\ req[p].pc = "bf_write"
  /\ LET l == req[p].lid
     IN  lists' = IF Live(l) THEN [lists EXCEPT ![l].viewId = req[p].viewId, ![l].updatedAt = now]
                  ELSE lists
  /\ Set(p, [req[p] EXCEPT !.pc = "get_items", !.list.viewId = req[p].viewId, !.viewId = NoId, !.attempts = 0,
                            !.backfilled = TRUE])
  /\ UNCHANGED << listCount, items, itemCount, now, viewer, authVars >>

\* detectPermission, find the items, respond with the serialized list and permission
GetListItems(p) ==
  /\ Quiet
  /\ req[p].pc = "get_items"
  /\ LET access == ResolveAccess(req[p].list, req[p].pathId, req[p].auth)
     IN  Set(p, [Respond(req[p], 200) EXCEPT !.permission = access.permission, !.isOwner = access.isOwner])
  /\ UNCHANGED << lists, listCount, items, itemCount, now, viewer, authVars >>

\* ------------------------------------------------------- DELETE /api/lists/[shareId]
DeleteListStart(p, token, pathId) ==
  /\ Quiet
  /\ req[p].pc = "idle"
  /\ LET auth == getAuthContext(token)
         r == Begin("deleteList", pathId, token)
     IN  IF auth = NoAuth THEN Set(p, Respond(r, 401))
         ELSE IF ~isValidShareId(pathId) THEN Set(p, Respond(r, 400))
         ELSE IF MatchShareId(pathId) = {} THEN Set(p, Respond(r, 404))
         ELSE \E l \in MatchShareId(pathId) :
                IF ~IsOwner(lists[l], auth) THEN Set(p, Respond([r EXCEPT !.lid = l], 403))
                ELSE Set(p, [r EXCEPT !.pc = "dl_items", !.lid = l])
  /\ UNCHANGED << lists, listCount, items, itemCount, now, viewer, authVars >>

\* deleteMany({ listId })
DeleteListItems(p) ==
  /\ Quiet
  /\ req[p].pc = "dl_items"
  /\ items' = [i \in ItemIds |-> IF items[i] # NoDoc /\ items[i].listId = req[p].lid THEN NoDoc ELSE items[i]]
  /\ Set(p, [req[p] EXCEPT !.pc = "dl_list"])
  /\ UNCHANGED << lists, listCount, itemCount, now, viewer, authVars >>

\* deleteOne({ _id })
DeleteListDoc(p) ==
  /\ Quiet
  /\ req[p].pc = "dl_list"
  /\ lists' = [lists EXCEPT ![req[p].lid] = NoDoc]
  /\ Set(p, Respond(req[p], 200))
  /\ UNCHANGED << listCount, items, itemCount, now, viewer, authVars >>

\* ------------------------------------------------------- PATCH /api/lists/[shareId]
PatchListStart(p, token, pathId, body) ==
  /\ Quiet
  /\ req[p].pc = "idle"
  /\ LET r == Begin("patchList", pathId, token)
     IN  IF ~isValidShareId(pathId) THEN Set(p, Respond(r, 400))
         ELSE IF body.title = <<>> THEN Set(p, Respond(r, 400))
         ELSE IF Len(trim(body.title)) = 0 THEN Set(p, Respond(r, 400))
         ELSE IF Len(body.title) > MaxTitleLength THEN Set(p, Respond(r, 400))
         ELSE IF MatchEither(pathId) = {} THEN Set(p, Respond(r, 404))
         ELSE \E l \in MatchEither(pathId) :
                IF detectPermission(lists[l], pathId) # "edit" THEN Set(p, Respond([r EXCEPT !.lid = l], 403))
                ELSE Set(p, [r EXCEPT !.pc = "pl_update", !.lid = l, !.body = body])
  /\ UNCHANGED << lists, listCount, items, itemCount, now, viewer, authVars >>

\* findOneAndUpdate({ _id }, { $set: { title, updatedAt } }, { returnDocument: 'after' })
PatchListUpdate(p) ==
  /\ Quiet
  /\ req[p].pc = "pl_update"
  /\ LET l == req[p].lid
     IN  IF ~Live(l) THEN Set(p, Respond(req[p], 404)) /\ UNCHANGED lists
         ELSE /\ lists' = [lists EXCEPT ![l].title = trim(req[p].body.title), ![l].updatedAt = now]
              /\ Set(p, [Respond(req[p], 200) EXCEPT !.list = Snapshot(l)])
  /\ UNCHANGED << listCount, items, itemCount, now, viewer, authVars >>

\* ------------------------------------------------------- POST /api/lists/[shareId]/items
InFlightItemCreates == Cardinality({ p \in Procs : req[p].pc \in {"ci_last", "ci_insert"} })

ItemsOf(l) == { i \in LiveItems : items[i].listId = l }

MaxOrderOf(l) == CHOOSE o \in { items[i].order : i \in ItemsOf(l) } : \A i \in ItemsOf(l) : items[i].order <= o

\* Faulty variant: the last item is looked up in the whole collection, not in the list.
nextOrderAnyList(l) ==
  IF LiveItems # {}
  THEN (CHOOSE o \in { items[i].order : i \in LiveItems } : \A i \in LiveItems : items[i].order <= o) + 1
  ELSE 0

\* lastItem.length > 0 ? lastItem[0].order + 1 : 0
nextOrder(l) == IF ItemsOf(l) # {} THEN MaxOrderOf(l) + 1 ELSE 0

\* the runs that follow the list routes insert at most MaxListItems items
FewItems == itemCount + InFlightItemCreates < MaxListItems

CreateItemStart(p, token, pathId, body) ==
  /\ Quiet
  /\ req[p].pc = "idle"
  /\ itemCount + InFlightItemCreates < MaxItems
  /\ LET r == Begin("createItem", pathId, token)
     IN  IF ~isValidShareId(pathId) THEN Set(p, Respond(r, 400))
         ELSE IF body.text = <<>> THEN Set(p, Respond(r, 400))
         ELSE IF Len(trim(body.text)) = 0 THEN Set(p, Respond(r, 400))
         ELSE IF Len(body.text) > MaxTextLength THEN Set(p, Respond(r, 400))
         ELSE IF MatchEither(pathId) = {} THEN Set(p, Respond(r, 404))
         ELSE \E l \in MatchEither(pathId) :
                IF detectPermission(lists[l], pathId) # "edit" THEN Set(p, Respond([r EXCEPT !.lid = l], 403))
                ELSE Set(p, [r EXCEPT !.pc = "ci_last", !.lid = l, !.body = body])
  /\ UNCHANGED << lists, listCount, items, itemCount, now, viewer, authVars >>

\* find({ listId }).sort({ order: -1 }).limit(1); nextOrder; now = new Date()
CreateItemLast(p) ==
  /\ Quiet
  /\ req[p].pc = "ci_last"
  /\ Set(p, [req[p] EXCEPT !.pc = "ci_insert", !.body.order = nextOrder(req[p].lid), !.at = now])
  /\ UNCHANGED << lists, listCount, items, itemCount, now, viewer, authVars >>

\* insertOne(newItem)
CreateItemInsert(p) ==
  /\ Quiet
  /\ req[p].pc = "ci_insert"
  /\ LET id == itemCount + 1
         newItem == [ listId |-> req[p].lid, text |-> trim(req[p].body.text), completed |-> FALSE,
                      order |-> req[p].body.order ]
     IN  /\ items' = [items EXCEPT ![id] = newItem]
         /\ itemCount' = id
         /\ Set(p, [req[p] EXCEPT !.pc = "ci_touch", !.itemId = id])
  /\ UNCHANGED << lists, listCount, now, viewer, authVars >>

\* updateOne({ _id: list._id }, { $set: { updatedAt: now } }) with the `now` taken before the insert
CreateItemTouch(p) ==
  /\ Quiet
  /\ req[p].pc = "ci_touch"
  /\ LET l == req[p].lid
     IN  lists' = IF Live(l) THEN [lists EXCEPT ![l].updatedAt = req[p].at] ELSE lists
  /\ Set(p, Respond(req[p], 201))
  /\ UNCHANGED << listCount, items, itemCount, now, viewer, authVars >>

\* ------------------------------------------------------- PATCH /api/lists/[shareId]/items/[itemId]
PatchItemStart(p, token, pathId, itemId, body) ==
  /\ Quiet
  /\ req[p].pc = "idle"
  /\ LET r == [Begin("patchItem", pathId, token) EXCEPT !.itemId = itemId]
     IN  IF ~isValidShareId(pathId) THEN Set(p, Respond(r, 400))
         ELSE IF ~ObjectIdIsValid(itemId) THEN Set(p, Respond(r, 400))
         ELSE IF body.has = {} THEN Set(p, Respond(r, 400))
         ELSE IF "text" \in body.has /\ Len(trim(body.text)) = 0 THEN Set(p, Respond(r, 400))
         ELSE IF "text" \in body.has /\ Len(body.text) > MaxTextLength THEN Set(p, Respond(r, 400))
         ELSE IF "order" \in body.has /\ body.order < 0 THEN Set(p, Respond(r, 400))
         ELSE IF MatchEither(pathId) = {} THEN Set(p, Respond(r, 404))
         ELSE \E l \in MatchEither(pathId) :
                IF detectPermission(lists[l], pathId) # "edit" THEN Set(p, Respond([r EXCEPT !.lid = l], 403))
                ELSE Set(p, [r EXCEPT !.pc = "pi_update", !.lid = l, !.body = body])
  /\ UNCHANGED << lists, listCount, items, itemCount, now, viewer, authVars >>

\* $set: updateFields
ApplyPatch(item, body) ==
  [ item EXCEPT !.text = IF "text" \in body.has THEN trim(body.text) ELSE @,
                !.completed = IF "completed" \in body.has THEN body.completed ELSE @,
                !.order = IF "order" \in body.has THEN body.order ELSE @ ]

\* Faulty variant: the filter is { _id: itemId } alone.
ItemMatchesAnyList(itemId, l) == itemId \in LiveItems

\* the filter { _id: itemId, listId: list._id } of the item update and delete
ItemMatches(itemId, l) == itemId \in LiveItems /\ items[itemId].listId = l

\* findOneAndUpdate({ _id, listId }, { $set: updateFields })
PatchItemUpdate(p) ==
  /\ Quiet
  /\ req[p].pc = "pi_update"
  /\ LET i == req[p].itemId
     IN  IF ~ItemMatches(i, req[p].lid) THEN Set(p, Respond(req[p], 404)) /\ UNCHANGED items
         ELSE /\ items' = [items EXCEPT ![i] = ApplyPatch(@, req[p].body)]
              /\ Set(p, [req[p] EXCEPT !.pc = "pi_touch"])
  /\ UNCHANGED << lists, listCount, itemCount, now, viewer, authVars >>

\* updateOne({ _id: list._id }, { $set: { updatedAt: new Date() } })
PatchItemTouch(p) ==
  /\ Quiet
  /\ req[p].pc = "pi_touch"
  /\ LET l == req[p].lid
     IN  lists' = IF Live(l) THEN [lists EXCEPT ![l].updatedAt = now] ELSE lists
  /\ Set(p, Respond(req[p], 200))
  /\ UNCHANGED << listCount, items, itemCount, now, viewer, authVars >>

\* ------------------------------------------------------- DELETE /api/lists/[shareId]/items/[itemId]
DeleteItemStart(p, token, pathId, itemId) ==
  /\ Quiet
  /\ req[p].pc = "idle"
  /\ LET r == [Begin("deleteItem", pathId, token) EXCEPT !.itemId = itemId]
     IN  IF ~isValidShareId(pathId) THEN Set(p, Respond(r, 400))
         ELSE IF ~ObjectIdIsValid(itemId) THEN Set(p, Respond(r, 400))
         ELSE IF MatchEither(pathId) = {} THEN Set(p, Respond(r, 404))
         ELSE \E l \in MatchEither(pathId) :
                IF detectPermission(lists[l], pathId) # "edit" THEN Set(p, Respond([r EXCEPT !.lid = l], 403))
                ELSE Set(p, [r EXCEPT !.pc = "di_delete", !.lid = l])
  /\ UNCHANGED << lists, listCount, items, itemCount, now, viewer, authVars >>

\* deleteOne({ _id, listId })
DeleteItemDelete(p) ==
  /\ Quiet
  /\ req[p].pc = "di_delete"
  /\ LET i == req[p].itemId
     IN  IF ~ItemMatches(i, req[p].lid) THEN Set(p, Respond(req[p], 404)) /\ UNCHANGED items
         ELSE /\ items' = [items EXCEPT ![i] = NoDoc]
              /\ Set(p, [req[p] EXCEPT !.pc = "di_touch"])
  /\ UNCHANGED << lists, listCount, itemCount, now, viewer, authVars >>

\* updateOne({ _id: list._id }, { $set: { updatedAt: new Date() } })
DeleteItemTouch(p) ==
  /\ Quiet
  /\ req[p].pc = "di_touch"
  /\ LET l == req[p].lid
     IN  lists' = IF Live(l) THEN [lists EXCEPT ![l].updatedAt = now] ELSE lists
  /\ Set(p, Respond(req[p], 200))
  /\ UNCHANGED << listCount, items, itemCount, now, viewer, authVars >>

\* the response leaves the server; the slot serves the next request
Reply(p) ==
  /\ req[p].pc = "done"
  /\ Set(p, Idle)
  /\ UNCHANGED << lists, listCount, items, itemCount, now, viewer, authVars >>

\* the list routes: POST /api/lists and GET, PATCH, DELETE /api/lists/[shareId]
ListRoutes ==
  \/ \E p \in Procs, token \in Tokens, body \in TitleBodies : CreateListStart(p, token, body)
  \/ \E p \in Procs : CreateListLoop(p)
  \/ \E p \in Procs : CreateListInsert(p)
  \/ \E p \in Procs, token \in Tokens, pathId \in PathIds : GetListStart(p, token, pathId)
  \/ \E p \in Procs : BackfillLoop(p)
  \/ \E p \in Procs : BackfillWrite(p)
  \/ \E p \in Procs : GetListItems(p)
  \/ \E p \in Procs, token \in Tokens, pathId \in PathIds, body \in TitleBodies :
       PatchListStart(p, token, pathId, body)
  \/ \E p \in Procs : PatchListUpdate(p)
  \/ \E p \in Procs, token \in Tokens, pathId \in PathIds : DeleteListStart(p, token, pathId)
  \/ \E p \in Procs : DeleteListItems(p)
  \/ \E p \in Procs : DeleteListDoc(p)

\* the item routes never read the cookie: one caller without and one with a session
ItemTokens == { NoToken, [present |-> TRUE, userId |-> "u1", good |-> TRUE] }

\* a POST /api/lists/[shareId]/items arrives
CreateItemRequests ==
  \E p \in Procs, token \in ItemTokens, pathId \in PathIds, body \in TextBodies :
    CreateItemStart(p, token, pathId, body)

\* the steps of the item routes other than the arrival of a POST
ItemSteps ==
  \/ \E p \in Procs : CreateItemLast(p)
  \/ \E p \in Procs : CreateItemInsert(p)
  \/ \E p \in Procs : CreateItemTouch(p)
  \/ \E p \in Procs, token \in ItemTokens, pathId \in PathIds, itemId \in ItemPathIds, body \in ItemPatchBodies :
       PatchItemStart(p, token, pathId, itemId, body)
  \/ \E p \in Procs : PatchItemUpdate(p)
  \/ \E p \in Procs : PatchItemTouch(p)
  \/ \E p \in Procs, token \in ItemTokens, pathId \in PathIds, itemId \in ItemPathIds :
       DeleteItemStart(p, token, pathId, itemId)
  \/ \E p \in Procs : DeleteItemDelete(p)
  \/ \E p \in Procs : DeleteItemTouch(p)

\* the item routes: POST /api/lists/[shareId]/items and PATCH, DELETE .../items/[itemId]
ItemRoutes == CreateItemRequests \/ ItemSteps

\* Concurrent requests on the list routes.
Next == ListRoutes \/ \E p \in Procs : Reply(p)

Spec == Init /\ [][Next]_vars

\* Concurrent requests on the item routes, with reads (and their backfill) of the
\* lists.
NextItems ==
  \/ FewItems /\ CreateItemRequests
  \/ ItemSteps
  \/ \E p \in Procs, token \in ItemTokens, pathId \in PathIds : GetListStart(p, token, pathId)
  \/ \E p \in Procs : BackfillLoop(p)
  \/ \E p \in Procs : BackfillWrite(p)
  \/ \E p \in Procs : GetListItems(p)
  \/ \E p \in Procs : Reply(p)

SpecItems == Init /\ [][NextItems]_vars

\* The list routes with every read of a list (GET /api/lists/[shareId]) sent by one
\* client that waits for each response before its next request: reads happen one
\* after the other, while the other routes run concurrently with them.
ReaderSlots == { p \in Procs : \A q \in Procs : p <= q }

NextSequentialReads ==
  \/ \E p \in Procs, token \in Tokens, body \in TitleBodies : CreateListStart(p, token, body)
  \/ \E p \in Procs : CreateListLoop(p)
  \/ \E p \in Procs : CreateListInsert(p)
  \/ \E p \in ReaderSlots, token \in Tokens, pathId \in PathIds : GetListStart(p, token, pathId)
  \/ \E p \in Procs : BackfillLoop(p)
  \/ \E p \in Procs : BackfillWrite(p)
  \/ \E p \in Procs : GetListItems(p)
  \/ \E p \in Procs, token \in Tokens, pathId \in PathIds, body \in TitleBodies :
       PatchListStart(p, token, pathId, body)
  \/ \E p \in Procs : PatchListUpdate(p)
  \/ \E p \in Procs, token \in Tokens, pathId \in PathIds : DeleteListStart(p, token, pathId)
  \/ \E p \in Procs : DeleteListItems(p)
  \/ \E p \in Procs : DeleteListDoc(p)
  \/ \E p \in Procs : Reply(p)

SpecSequentialReads == Init /\ [][NextSequentialReads]_vars

\* ------------------------------------------------------- the holder of a view link
\* the request slot that carries the view-link holder's requests; the other slots
\* carry everybody else's
ViewerSlots == { p \in Procs : \A q \in Procs : q <= p }
OtherSlots == Procs \ ViewerSlots

\* the identifiers a response body carries: serializeTodoList writes shareId and viewId
ResponseIds(r) ==
  IF r.op \in {"getList", "patchList"} /\ r.status = 200 THEN { r.list.shareId, r.list.viewId } \ { NoId }
  ELSE {}

\* somebody who has the list open copies its view-only link to the viewer
ShareViewLink(l) ==
  /\ Quiet
  /\ viewer.shared = {}
  /\ Live(l)
  /\ lists[l].viewId # NoId
  /\ viewer' = [known |-> { lists[l].viewId }, shared |-> { l }]
  /\ UNCHANGED << lists, listCount, items, itemCount, now, req, authVars >>

\* the viewer reads the response: every identifier in it is now known to them
ViewerReply(p) ==
  /\ req[p].pc = "done"
  /\ Set(p, Idle)
  /\ viewer' = [viewer EXCEPT !.known = @ \cup ResponseIds(req[p])]
  /\ UNCHANGED << lists, listCount, items, itemCount, now, authVars >>

\* Everybody else uses the list routes with any credential and any path; the viewer
\* sends no credential and only identifiers they were given or have read.
NextViewer ==
  \/ \E p \in OtherSlots, token \in Tokens, body \in TitleBodies : CreateListStart(p, token, body)
  \/ \E p \in Procs : CreateListLoop(p)
  \/ \E p \in Procs : CreateListInsert(p)
  \/ \E p \in OtherSlots, token \in Tokens, pathId \in PathIds : GetListStart(p, token, pathId)
  \/ \E p \in Procs : BackfillLoop(p)
  \/ \E p \in Procs : BackfillWrite(p)
  \/ \E p \in Procs : GetListItems(p)
  \/ \E p \in OtherSlots, token \in Tokens, pathId \in PathIds, body \in TitleBodies :
       PatchListStart(p, token, pathId, body)
  \/ \E p \in Procs : PatchListUpdate(p)
  \/ \E p \in OtherSlots, token \in Tokens, pathId \in PathIds : DeleteListStart(p, token, pathId)
  \/ \E p \in Procs : DeleteListItems(p)
  \/ \E p \in Procs : DeleteListDoc(p)
  \/ \E p \in Procs : CreateItemLast(p)
  \/ \E p \in Procs : CreateItemInsert(p)
  \/ \E p \in Procs : CreateItemTouch(p)
  \/ \E l \in ListIds : ShareViewLink(l)
  \/ Tick
  \/ \E p \in ViewerSlots, pathId \in viewer.known : GetListStart(p, NoToken, pathId)
  \/ \E p \in ViewerSlots, pathId \in viewer.known, body \in TitleBodies : PatchListStart(p, NoToken, pathId, body)
  \/ \E p \in ViewerSlots, pathId \in viewer.known : DeleteListStart(p, NoToken, pathId)
  \/ \E p \in ViewerSlots, pathId \in viewer.known, body \in TextBodies :
       FewItems /\ CreateItemStart(p, NoToken, pathId, body)
  \/ \E p \in OtherSlots : Reply(p)
  \/ \E p \in ViewerSlots : ViewerReply(p)

SpecViewer == Init /\ [][NextViewer]_vars

\* ------------------------------------------------------- two lists and their items
\* the store after one POST /api/lists by u1: the legacy list and u1's list
InitTwoLists ==
  /\ lists = [l \in ListIds |->
                IF l = LegacyId
                THEN [ userId |-> NoUser, shareId |-> generateShareId([i \in 1..(IdLength * 2) |-> 0]),
                       viewId |-> NoId, title |-> <<"a">>, updatedAt |-> 0 ]
                ELSE IF l = 1
                THEN [ userId |-> "u1",
                       shareId |-> generateShareId([i \in 1..(IdLength * 2) |-> IF i = IdLength THEN 1 ELSE 0]),
                       viewId |-> generateShareId([i \in 1..(IdLength * 2) |-> IF i = IdLength THEN 2 ELSE 0]),
                       title |-> <<"b">>, updatedAt |-> 0 ]
                ELSE NoDoc]
  /\ listCount = 1
  /\ items = [i \in ItemIds |-> NoDoc]
  /\ itemCount = 0
  /\ now = 0
  /\ req = [p \in Procs |-> Idle]
  /\ viewer = [known |-> {}, shared |-> {}]
  /\ users = [u \in UserIds |-> NoDoc]
  /\ emailIndex = FALSE
  /\ signupAttempts = [ip \in Ips |-> NoEntry]
  /\ signinAttempts = [e \in NormalEmails |-> NoEntry]
  /\ areq = [p \in Procs |-> AuthIdle]
  /\ calls = [signup |-> [ip \in Ips |-> NoWindow], signin |-> [e \in NormalEmails |-> NoWindow], last |-> NoCall,
              noAccount |-> NoResponse, wrongPassword |-> NoResponse]
  /\ session = NoSession

\* One client works on the items of the two lists and waits for each response before
\* its next request.
NextOrder ==
  \/ \E p \in ReaderSlots, pathId \in PathIds, body \in TextBodies : CreateItemStart(p, NoToken, pathId, body)
  \/ \E p \in Procs : CreateItemLast(p)
  \/ \E p \in Procs : CreateItemInsert(p)
  \/ \E p \in Procs : CreateItemTouch(p)
  \/ \E p \in ReaderSlots, pathId \in PathIds, itemId \in ItemPathIds, body \in ItemPatchBodies :
       PatchItemStart(p, NoToken, pathId, itemId, body)
  \/ \E p \in Procs : PatchItemUpdate(p)
  \/ \E p \in Procs : PatchItemTouch(p)
  \/ \E p \in ReaderSlots, pathId \in PathIds, itemId \in ItemPathIds : DeleteItemStart(p, NoToken, pathId, itemId)
  \/ \E p \in Procs : DeleteItemDelete(p)
  \/ \E p \in Procs : DeleteItemTouch(p)
  \/ \E p \in Procs : Reply(p)

SpecOrder == InitTwoLists /\ [][NextOrder]_vars

\* One client sends requests to every route that takes a list identifier in its path,
\* with any credential, path and body, one request at a time.
NextPaths ==
  \/ \E p \in ReaderSlots, token \in Tokens, pathId \in PathIds : GetListStart(p, token, pathId)
  \/ \E p \in Procs : BackfillLoop(p)
  \/ \E p \in Procs : BackfillWrite(p)
  \/ \E p \in Procs : GetListItems(p)
  \/ \E p \in ReaderSlots, token \in Tokens, pathId \in PathIds, body \in TitleBodies :
       PatchListStart(p, token, pathId, body)
  \/ \E p \in Procs : PatchListUpdate(p)
  \/ \E p \in ReaderSlots, token \in Tokens, pathId \in PathIds : DeleteListStart(p, token, pathId)
  \/ \E p \in Procs : DeleteListItems(p)
  \/ \E p \in Procs : DeleteListDoc(p)
  \/ \E p \in ReaderSlots, token \in Tokens, pathId \in PathIds, body \in TextBodies :
       FewItems /\ CreateItemStart(p, token, pathId, body)
  \/ \E p \in Procs : CreateItemLast(p)
  \/ \E p \in Procs : CreateItemInsert(p)
  \/ \E p \in Procs : CreateItemTouch(p)
  \/ \E p \in ReaderSlots, token \in Tokens, pathId \in PathIds, itemId \in ItemPathIds, body \in ItemPatchBodies :
       PatchItemStart(p, token, pathId, itemId, body)
  \/ \E p \in Procs : PatchItemUpdate(p)
  \/ \E p \in Procs : PatchItemTouch(p)
  \/ \E p \in ReaderSlots, token \in Tokens, pathId \in PathIds, itemId \in ItemPathIds :
       DeleteItemStart(p, token, pathId, itemId)
  \/ \E p \in Procs : DeleteItemDelete(p)
  \/ \E p \in Procs : DeleteItemTouch(p)
  \/ \E p \in Procs : Reply(p)

SpecPaths == InitTwoLists /\ [][NextPaths]_vars

\* Concurrent requests create and delete items of the two lists; no request sets an
\* order explicitly.
NextCreates ==
  \/ \E p \in Procs, pathId \in PathIds, body \in TextBodies : CreateItemStart(p, NoToken, pathId, body)
  \/ \E p \in Procs : CreateItemLast(p)
  \/ \E p \in Procs : CreateItemInsert(p)
  \/ \E p \in Procs : CreateItemTouch(p)
  \/ \E p \in Procs, pathId \in PathIds, itemId \in ItemPathIds : DeleteItemStart(p, NoToken, pathId, itemId)
  \/ \E p \in Procs : DeleteItemDelete(p)
  \/ \E p \in Procs : DeleteItemTouch(p)
  \/ \E p \in Procs : Reply(p)

SpecCreates == InitTwoLists /\ [][NextCreates]_vars

\* Concurrent requests that write a list's updatedAt (title updates, item creates,
\* updates and deletes, backfills) while the clock runs.
NextTimestamps ==
  \/ \E p \in Procs, pathId \in PathIds : GetListStart(p, NoToken, pathId)
  \/ \E p \in Procs : BackfillLoop(p)
  \/ \E p \in Procs : BackfillWrite(p)
  \/ \E p \in Procs : GetListItems(p)
  \/ \E p \in Procs, pathId \in PathIds, body \in TitleBodies : PatchListStart(p, NoToken, pathId, body)
  \/ \E p \in Procs : PatchListUpdate(p)
  \/ \E p \in Procs, pathId \in PathIds, body \in TextBodies :
       FewItems /\ CreateItemStart(p, NoToken, pathId, body)
  \/ \E p \in Procs : CreateItemLast(p)
  \/ \E p \in Procs : CreateItemInsert(p)
  \/ \E p \in Procs : CreateItemTouch(p)
  \/ \E p \in Procs, pathId \in PathIds, itemId \in ItemPathIds, body \in TextBodies :
       PatchItemStart(p, NoToken, pathId, itemId, body)
  \/ \E p \in Procs : PatchItemUpdate(p)
  \/ \E p \in Procs : PatchItemTouch(p)
  \/ \E p \in Procs, pathId \in PathIds, itemId \in ItemPathIds : DeleteItemStart(p, NoToken, pathId, itemId)
  \/ \E p \in Procs : DeleteItemDelete(p)
  \/ \E p \in Procs : DeleteItemTouch(p)
  \/ Tick
  \/ \E p \in Procs : Reply(p)

SpecTimestamps == Init /\ [][NextTimestamps]_vars

\* Lists are deleted while requests that create and update items run on them.
NextCascade ==
  \/ \E p \in Procs, token \in Tokens, pathId \in PathIds : DeleteListStart(p, token, pathId)
  \/ \E p \in Procs : DeleteListItems(p)
  \/ \E p \in Procs : DeleteListDoc(p)
  \/ \E p \in Procs, pathId \in PathIds, body \in TextBodies :
       FewItems /\ CreateItemStart(p, NoToken, pathId, body)
  \/ \E p \in Procs : CreateItemLast(p)
  \/ \E p \in Procs : CreateItemInsert(p)
  \/ \E p \in Procs : CreateItemTouch(p)
  \/ \E p \in Procs, pathId \in PathIds, itemId \in ItemPathIds, body \in ItemPatchBodies :
       PatchItemStart(p, NoToken, pathId, itemId, body)
  \/ \E p \in Procs : PatchItemUpdate(p)
  \/ \E p \in Procs : PatchItemTouch(p)
  \/ \E p \in Procs : Reply(p)

SpecCascade == InitTwoLists /\ [][NextCascade]_vars

\* ------------------------------------------------------- lib/rate-limit.ts
Has(entry) == entry # NoEntry

\* Faulty variant: a refused call is counted as well.
checkSignupRateLimitCountsRefused(attempts, ip, t) ==
  LET entry == attempts[ip]
      afterReset == IF Has(entry) /\ entry.resetAt < t THEN [attempts EXCEPT ![ip] = NoEntry] ELSE attempts
      current == afterReset[ip]
      counted == [afterReset EXCEPT ![ip] =
                    [count |-> (IF Has(current) THEN current.count ELSE 0) + 1,
                     resetAt |-> IF Has(current) THEN current.resetAt ELSE t + SignupWindowMs]]
  IN  [allowed |-> ~(Has(current) /\ current.count >= SignupLimit), attempts |-> counted]

\* checkSignupRateLimit(ip) at Date.now() = t: the answer and the Map afterwards
checkSignupRateLimit(attempts, ip, t) ==
  LET entry == attempts[ip]
      afterReset == IF Has(entry) /\ entry.resetAt < t THEN [attempts EXCEPT ![ip] = NoEntry] ELSE attempts
      current == afterReset[ip]
  IN  IF Has(current) /\ current.count >= SignupLimit
      THEN [allowed |-> FALSE, attempts |-> afterReset]
      ELSE [allowed |-> TRUE,
            attempts |-> [afterReset EXCEPT ![ip] =
                            [count |-> (IF Has(current) THEN current.count ELSE 0) + 1,
                             resetAt |-> IF Has(current) THEN current.resetAt ELSE t + SignupWindowMs]]]

\* Faulty variant: every allowed call moves the window end to 15 minutes from now.
checkSigninRateLimitSliding(attempts, email, t) ==
  LET normalizedEmail == normalizeEmail(email)
      entry == attempts[normalizedEmail]
      afterReset == IF Has(entry) /\ entry.resetAt < t THEN [attempts EXCEPT ![normalizedEmail] = NoEntry]
                    ELSE attempts
      current == afterReset[normalizedEmail]
  IN  IF Has(current) /\ current.count >= SigninLimit
      THEN [allowed |-> FALSE, attempts |-> afterReset]
      ELSE [allowed |-> TRUE,
            attempts |-> [afterReset EXCEPT ![normalizedEmail] =
                            [count |-> (IF Has(current) THEN current.count ELSE 0) + 1,
                             resetAt |-> t + SigninWindowMs]]]

\* Faulty variant: the limit test lets one call too many through.
checkSigninRateLimitOneMore(attempts, email, t) ==
  LET normalizedEmail == normalizeEmail(email)
      entry == attempts[normalizedEmail]
      afterReset == IF Has(entry) /\ entry.resetAt < t THEN [attempts EXCEPT ![normalizedEmail] = NoEntry]
                    ELSE attempts
      current == afterReset[normalizedEmail]
  IN  IF Has(current) /\ current.count > SigninLimit
      THEN [allowed |-> FALSE, attempts |-> afterReset]
      ELSE [allowed |-> TRUE,
            attempts |-> [afterReset EXCEPT ![normalizedEmail] =
                            [count |-> (IF Has(current) THEN current.count ELSE 0) + 1,
                             resetAt |-> IF Has(current) THEN current.resetAt ELSE t + SigninWindowMs]]]

\* checkSigninRateLimit(email) at Date.now() = t: the answer and the Map afterwards
checkSigninRateLimit(attempts, email, t) ==
  LET normalizedEmail == normalizeEmail(email)
      entry == attempts[normalizedEmail]
      afterReset == IF Has(entry) /\ entry.resetAt < t THEN [attempts EXCEPT ![normalizedEmail] = NoEntry]
                    ELSE attempts
      current == afterReset[normalizedEmail]
  IN  IF Has(current) /\ current.count >= SigninLimit
      THEN [allowed |-> FALSE, attempts |-> afterReset]
      ELSE [allowed |-> TRUE,
            attempts |-> [afterReset EXCEPT ![normalizedEmail] =
                            [count |-> (IF Has(current) THEN current.count ELSE 0) + 1,
                             resetAt |-> IF Has(current) THEN current.resetAt ELSE t + SigninWindowMs]]]

\* The contract of a throttle call at time t for a key whose calls so far fall in
\* window w: a call with no window open, or later than windowMs after the window was
\* opened, opens a window and is allowed; inside a window the first `limit` calls are
\* allowed and the others are not.
Expect(w, limit, windowMs, t) ==
  IF ~w.open \/ t > w.openedAt + windowMs
  THEN [allowed |-> TRUE,
        window |-> [open |-> TRUE, openedAt |-> t, granted |-> 1, refused |-> FALSE, reopened |-> w.refused]]
  ELSE IF w.granted < limit
  THEN [allowed |-> TRUE, window |-> [w EXCEPT !.granted = @ + 1]]
  ELSE [allowed |-> FALSE, window |-> [w EXCEPT !.refused = TRUE]]

\* one call of checkSignupRateLimit(ip), recorded in the history
ConsumeSignup(ip) ==
  LET r == checkSignupRateLimit(signupAttempts, ip, now)
      e == Expect(calls.signup[ip], SignupLimit, SignupWindowMs, now)
  IN  /\ signupAttempts' = r.attempts
      /\ calls' = [calls EXCEPT !.signup[ip] = e.window,
                                !.last = [policy |-> "signup", allowed |-> r.allowed, expected |-> e.allowed]]

\* one call of checkSigninRateLimit(email), recorded in the history
ConsumeSignin(email) ==
  LET r == checkSigninRateLimit(signinAttempts, email, now)
      e == Expect(calls.signin[normalizeEmail(email)], SigninLimit, SigninWindowMs, now)
  IN  /\ signinAttempts' = r.attempts
      /\ calls' = [calls EXCEPT !.signin[normalizeEmail(email)] = e.window,
                                !.last = [policy |-> "signin", allowed |-> r.allowed, expected |-> e.allowed]]

CallSignupRateLimit(ip) ==
  /\ ConsumeSignup(ip)
  /\ UNCHANGED << listVars, session, now, users, emailIndex, signinAttempts, areq >>

CallSigninRateLimit(email) ==
  /\ ConsumeSignin(email)
  /\ UNCHANGED << listVars, session, now, users, emailIndex, signupAttempts, areq >>

\* Faulty variant: the sweep also drops the entries whose resetAt is now.
SweepEager ==
  /\ signupAttempts' = [ip \in Ips |-> IF signupAttempts[ip].resetAt <= now THEN NoEntry ELSE signupAttempts[ip]]
  /\ signinAttempts' = [e \in NormalEmails |-> IF signinAttempts[e].resetAt <= now THEN NoEntry ELSE signinAttempts[e]]
  /\ UNCHANGED << listVars, session, now, users, emailIndex, areq, calls >>

\* setInterval: drop the entries whose resetAt has passed
Sweep ==
  /\ signupAttempts' = [ip \in Ips |-> IF signupAttempts[ip].resetAt < now THEN NoEntry ELSE signupAttempts[ip]]
  /\ signinAttempts' = [e \in NormalEmails |-> IF signinAttempts[e].resetAt < now THEN NoEntry ELSE signinAttempts[e]]
  /\ UNCHANGED << listVars, session, now, users, emailIndex, areq, calls >>

\* a quarter of an hour passes
Advance ==
  /\ now < MaxAdvance * QuarterHourMs
  /\ now' = now + QuarterHourMs
  /\ UNCHANGED << listVars, authVars >>

\* the spellings of one address: they share one entry of the signin Map
SameAddress == { e \in Emails : normalizeEmail(e) = <<"b">> }

\* The two throttles called at any time, the sweep running at any time.
NextThrottle ==
  \/ \E ip \in Ips : CallSignupRateLimit(ip)
  \/ \E email \in SameAddress : CallSigninRateLimit(email)
  \/ Sweep
  \/ Tick
  \/ Advance

SpecThrottle == Init /\ [][NextThrottle]_vars

\* ------------------------------------------------------- lib/auth.ts
\* bcrypt.hash: the hash determines the password and is not the password
hashPassword(password) == << "bcrypt", password >>

\* bcrypt.compare
verifyPassword(password, hash) == hash = hashPassword(password)

\* validator.isEmail: an address holds no blank
isEmail(email) == email # <<>> /\ \A i \in 1..Len(email) : email[i] # " "

LiveUsers == { u \in UserIds : users[u] # NoDoc }

\* findOne({ email })
UsersByEmail(email) == { u \in LiveUsers : users[u].email = email }

\* a response as its receiver sees it: status, error payload and cookie
Observed(r) == << r.status, r.error, r.cookie >>

AuthSet(p, r) == areq' = [areq EXCEPT ![p] = r]

AuthRespond(r, status, error) == [r EXCEPT !.pc = "done", !.status = status, !.error = error, !.password = <<>>]

\* a handler returns its response in the same synchronous stretch as its last await
AuthQuiet == \A p \in Procs : areq[p].pc # "done"

\* ------------------------------------------------------- POST /api/auth/signup
InFlightSignups == Cardinality({ p \in Procs : areq[p].pc \in {"su_find", "su_insert"} })

\* rate limit, body validation; then the handler awaits findOne
SignupStart(p, ip, email, password) ==
  /\ AuthQuiet
  /\ areq[p].pc = "idle"
  /\ Cardinality(LiveUsers) + InFlightSignups < MaxUsers
  /\ ConsumeSignup(ip)
  /\ LET r == [AuthIdle EXCEPT !.op = "signup"]
     IN  IF ~checkSignupRateLimit(signupAttempts, ip, now).allowed
         THEN AuthSet(p, AuthRespond(r, 429, "Too many signup attempts"))
         ELSE IF email = <<>> \/ password = <<>>
         THEN AuthSet(p, AuthRespond(r, 400, "Email and password required"))
         ELSE IF ~isEmail(email) THEN AuthSet(p, AuthRespond(r, 400, "Invalid email format"))
         ELSE IF Len(password) < MinPasswordLength
         THEN AuthSet(p, AuthRespond(r, 400, "Password must be at least 8 characters"))
         ELSE AuthSet(p, [r EXCEPT !.pc = "su_find", !.email = normalizeEmail(email), !.password = password])
  /\ UNCHANGED << listVars, session, now, users, emailIndex, signinAttempts >>

\* findOne({ email: normalizedEmail }); then the handler awaits hashPassword
SignupFind(p) ==
  /\ AuthQuiet
  /\ areq[p].pc = "su_find"
  /\ IF UsersByEmail(areq[p].email) # {}
     THEN AuthSet(p, AuthRespond([areq[p] EXCEPT !.known = "present"], 400, "Email already registered"))
     ELSE AuthSet(p, [areq[p] EXCEPT !.pc = "su_insert", !.known = "absent"])
  /\ UNCHANGED << listVars, session, now, users, emailIndex, signupAttempts, signinAttempts, calls >>

\* insertOne({ email, passwordHash, ... }): with a unique index the store refuses a
\* second document of the same email and the handler's catch answers 500
SignupInsert(p) ==
  /\ AuthQuiet
  /\ areq[p].pc = "su_insert"
  /\ IF emailIndex /\ UsersByEmail(areq[p].email) # {}
     THEN AuthSet(p, AuthRespond(areq[p], 500, "Internal server error")) /\ UNCHANGED users
     ELSE LET id == Cardinality(LiveUsers) + 1
          IN  /\ users' = [users EXCEPT ![id] = [email |-> areq[p].email,
                                                 passwordHash |-> hashPassword(areq[p].password)]]
              /\ AuthSet(p, [areq[p] EXCEPT !.pc = "su_fetch", !.uid = id, !.password = <<>>])
  /\ UNCHANGED << listVars, session, now, emailIndex, signupAttempts, signinAttempts, calls >>

\* findOne({ _id: insertedId }), generateToken, 201 with the auth_token cookie
SignupFetch(p) ==
  /\ AuthQuiet
  /\ areq[p].pc = "su_fetch"
  /\ IF users[areq[p].uid] = NoDoc THEN AuthSet(p, AuthRespond(areq[p], 500, "Internal server error"))
     ELSE AuthSet(p, [AuthRespond(areq[p], 201, "none") EXCEPT !.cookie = areq[p].uid])
  /\ UNCHANGED << listVars, session, now, users, emailIndex, signupAttempts, signinAttempts, calls >>

\* the deployment guide's db.users.createIndex({ email: 1 }, { unique: true }), which
\* the code never runs itself; MongoDB refuses it while duplicates exist
CreateEmailIndex ==
  /\ ~emailIndex
  /\ \A u \in LiveUsers, v \in LiveUsers : users[u].email = users[v].email => u = v
  /\ emailIndex' = TRUE
  /\ UNCHANGED << listVars, session, now, users, signupAttempts, signinAttempts, areq, calls >>

\* ------------------------------------------------------- POST /api/auth/signin
\* Faulty variant: the lookup's miss is answered differently from a wrong password.
SigninNoUserTold(r) == AuthRespond(r, 404, "User not found")

\* if (!user): 401 Invalid credentials
SigninNoUser(r) == AuthRespond(r, 401, "Invalid credentials")

\* if (!isValid): 401 Invalid credentials
SigninWrongPassword(r) == AuthRespond(r, 401, "Invalid credentials")

\* body validation, rate limit per normalized email; then the handler awaits findOne
SigninStart(p, email, password) ==
  /\ AuthQuiet
  /\ areq[p].pc = "idle"
  /\ LET r == [AuthIdle EXCEPT !.op = "signin"]
     IN  IF email = <<>> \/ password = <<>>
         THEN AuthSet(p, AuthRespond(r, 400, "Email and password required")) /\ UNCHANGED << signinAttempts, calls >>
         ELSE /\ ConsumeSignin(normalizeEmail(email))
              /\ IF ~checkSigninRateLimit(signinAttempts, normalizeEmail(email), now).allowed
                 THEN AuthSet(p, AuthRespond([r EXCEPT !.email = normalizeEmail(email)], 429, "Too many signin attempts"))
                 ELSE AuthSet(p, [r EXCEPT !.pc = "si_find", !.email = normalizeEmail(email), !.password = password])
  /\ UNCHANGED << listVars, session, now, users, emailIndex, signupAttempts >>

\* findOne({ email: normalizedEmail }); then the handler awaits verifyPassword
SigninFind(p) ==
  /\ AuthQuiet
  /\ areq[p].pc = "si_find"
  /\ IF UsersByEmail(areq[p].email) = {}
     THEN /\ AuthSet(p, SigninNoUser([areq[p] EXCEPT !.known = "absent"]))
          /\ calls' = [calls EXCEPT !.noAccount = Observed(SigninNoUser(areq[p]))]
     ELSE /\ \E u \in UsersByEmail(areq[p].email) :
               AuthSet(p, [areq[p] EXCEPT !.pc = "si_verify", !.uid = u, !.known = "present"])
          /\ UNCHANGED calls
  /\ UNCHANGED << listVars, session, now, users, emailIndex, signupAttempts, signinAttempts >>

\* verifyPassword(password, user.passwordHash); generateToken, 200 with the cookie.
\* `user` is the document the lookup returned: no route changes or deletes a user.
SigninVerify(p) ==
  /\ AuthQuiet
  /\ areq[p].pc = "si_verify"
  /\ IF ~verifyPassword(areq[p].password, users[areq[p].uid].passwordHash)
     THEN /\ AuthSet(p, SigninWrongPassword(areq[p]))
          /\ calls' = [calls EXCEPT !.wrongPassword = Observed(SigninWrongPassword(areq[p]))]
     ELSE /\ AuthSet(p, [AuthRespond(areq[p], 200, "none") EXCEPT !.cookie = areq[p].uid])
          /\ UNCHANGED calls
  /\ UNCHANGED << listVars, session, now, users, emailIndex, signupAttempts, signinAttempts >>

AuthReply(p) ==
  /\ areq[p].pc = "done"
  /\ AuthSet(p, AuthIdle)
  /\ UNCHANGED << listVars, session, now, users, emailIndex, signupAttempts, signinAttempts, calls >>

\* Concurrent requests on the auth routes within one window of the throttles (the
\* windows' expiry is exercised by SpecThrottle).
NextAuth ==
  \/ \E p \in Procs, ip \in Ips, email \in Emails, password \in Passwords : SignupStart(p, ip, email, password)
  \/ \E p \in Procs : SignupFind(p)
  \/ \E p \in Procs : SignupInsert(p)
  \/ \E p \in Procs : SignupFetch(p)
  \/ CreateEmailIndex
  \/ \E p \in Procs, email \in Emails, password \in SigninPasswords : SigninStart(p, email, password)
  \/ \E p \in Procs : SigninFind(p)
  \/ \E p \in Procs : SigninVerify(p)
  \/ \E p \in Procs : AuthReply(p)

SpecAuth == Init /\ [][NextAuth]_vars

\* ------------------------------------------------------- one browser session
\* jwt.sign({ userId: user._id.toString(), email }, secret, { expiresIn }): a token
\* that verifies until it expires
generateToken(uid) == [present |-> TRUE, userId |-> IF uid = 1 THEN "u1" ELSE "u2", good |-> TRUE]

\* the browser reads a response of the auth routes: a Set-Cookie in it is stored
SessionReply(p) ==
  /\ areq[p].pc = "done"
  /\ AuthSet(p, AuthIdle)
  /\ session' = IF areq[p].cookie # 0
                THEN [token |-> generateToken(areq[p].cookie), cookie |-> generateToken(areq[p].cookie),
                      signedOut |-> FALSE]
                ELSE session
  /\ UNCHANGED << listVars, now, users, emailIndex, signupAttempts, signinAttempts, calls >>

\* POST /api/auth/signout: cookieStore.delete('auth_token'), 200
Signout ==
  /\ Quiet /\ AuthQuiet
  /\ session.token # NoToken
  /\ ~session.signedOut
  /\ session' = [session EXCEPT !.cookie = NoToken, !.signedOut = TRUE]
  /\ UNCHANGED << listVars, now, users, emailIndex, signupAttempts, signinAttempts, areq, calls >>

\* what a request of this session can carry as its auth_token cookie: what the
\* browser holds now, or the token as it was issued
SessionTokens == { session.cookie, session.token }

\* One browser signs up, uses the identity-requiring list routes and signs out; the
\* token it was issued stays in the hands of whoever kept a copy.
NextSession ==
  \/ \E p \in ReaderSlots, ip \in Ips, email \in Emails, password \in Passwords :
       session.token = NoToken /\ SignupStart(p, ip, email, password)
  \/ \E p \in Procs : SignupFind(p)
  \/ \E p \in Procs : SignupInsert(p)
  \/ \E p \in Procs : SignupFetch(p)
  \/ \E p \in Procs : SessionReply(p)
  \/ Signout
  \/ \E p \in Procs, token \in SessionTokens, body \in TitleBodies : CreateListStart(p, token, body)
  \/ \E p \in Procs : CreateListLoop(p)
  \/ \E p \in Procs : CreateListInsert(p)
  \/ \E p \in Procs, token \in SessionTokens, pathId \in PathIds : DeleteListStart(p, token, pathId)
  \/ \E p \in Procs : DeleteListItems(p)
  \/ \E p \in Procs : DeleteListDoc(p)
  \/ \E p \in Procs : Reply(p)

SpecSession == Init /\ [][NextSession]_vars

\* ====================================================================== claims
IdsOf(l) == { lists[l].shareId, lists[l].viewId } \ { NoId }

Done(p, op) == req[p].pc = "done" /\ req[p].op = op

\* the request in slot p carries a verified identity that is list l's ownerRef
OwnerOf(r, l) == r.auth # NoAuth /\ r.verified /\ lists[l].userId = r.auth

Mutators == { "patchList", "createItem", "patchItem", "deleteItem" }

\* C1: no two distinct lists share an identifier value, edit or view.
C1_Uniqueness ==
  \A l1 \in LiveLists, l2 \in LiveLists : l1 # l2 => IdsOf(l1) \cap IdsOf(l2) = {}

\* C2: every list that has a viewId has it different from its editId.
C2_SelfDistinct ==
  \A l \in LiveLists : lists[l].viewId # NoId => lists[l].shareId # lists[l].viewId

\* a created list and a backfilled legacy list, both with a viewId
C2_Witness ==
  /\ Live(LegacyId) /\ lists[LegacyId].viewId # NoId
  /\ \E l \in LiveLists : l # LegacyId /\ lists[l].viewId # NoId

\* C3: a well-formed content mutation by a non-owner whose path identifier is some
\* list's viewId is answered 403 and changes neither store.
C3_ViewLinkForbidden ==
  [][ \A p \in Procs :
        ( /\ req[p].pc = "idle" /\ req'[p].op \in Mutators /\ req'[p].status # 400
          /\ \E l \in LiveLists : lists[l].viewId = req'[p].pathId /\ ~OwnerOf(req'[p], l) )
        => req'[p].status = 403 /\ lists' = lists /\ items' = items ]_vars

\* C4: a caller who was given only a list's view link and sends no credential causes no
\* change to that list's title or items, whatever identifiers they read in responses.
C4_ViewLinkReadOnly ==
  [][ \A l \in viewer.shared, p \in ViewerSlots :
        req'[p] # req[p] =>
          /\ Live(l) => lists'[l] # NoDoc /\ lists'[l].title = lists[l].title
          /\ \A i \in ItemIds :
               \/ (items[i] # NoDoc /\ items[i].listId = l)
               \/ (items'[i] # NoDoc /\ items'[i].listId = l)
               => items'[i] = items[i] ]_vars

\* C5: an owner's content mutation on their own list is not answered 403, whichever of
\* the list's two identifiers is in the path.
C5_OwnerNotForbidden ==
  [][ \A p \in Procs :
        ( /\ req[p].pc = "idle" /\ req'[p].op \in Mutators
          /\ \E l \in LiveLists : req'[p].pathId \in IdsOf(l) /\ OwnerOf(req'[p], l) )
        => req'[p].status # 403 ]_vars

\* C6: an owner's DELETE addressed by the list's viewId is accepted and goes on to
\* remove the items and the list.
C6_OwnerDeletesByViewId ==
  [][ \A p \in Procs :
        ( /\ req[p].pc = "idle" /\ req'[p].op = "deleteList"
          /\ \E l \in LiveLists : lists[l].viewId = req'[p].pathId /\ OwnerOf(req'[p], l) )
        => req'[p].pc = "dl_items" ]_vars

\* C7: a DELETE addressed to an existing list by either identifier, from a caller who
\* is not its verified owner, is answered 403.
C7_NonOwnerDeleteForbidden ==
  [][ \A p \in Procs :
        ( /\ req[p].pc = "idle" /\ req'[p].op = "deleteList"
          /\ \E l \in LiveLists : req'[p].pathId \in IdsOf(l)
          /\ \A l \in LiveLists : req'[p].pathId \in IdsOf(l) => ~OwnerOf(req'[p], l) )
        => req'[p].status = 403 ]_vars

C9_LinkTypeDeterminism ==
  \A p \in Procs :
    (Done(p, "getList") /\ req[p].status = 200)
    => \A l \in LiveLists :
         /\ lists[l].shareId = req[p].pathId => req[p].permission = "edit"
         /\ (lists[l].viewId = req[p].pathId /\ ~OwnerOf(req[p], l)) => req[p].permission = "view"

Rank(permission) == CASE permission = "none" -> 0 [] permission = "view" -> 1 [] permission = "edit" -> 2

\* C10: the permission a read returns to the list's verified owner is never below the
\* permission the same path identifier resolves to without an identity.
C10_OwnerNotLower ==
  \A p \in Procs :
    (Done(p, "getList") /\ req[p].status = 200 /\ req[p].verified /\ req[p].list.userId = req[p].auth)
    => LET anonymous == ResolveAccess(req[p].list, req[p].pathId, NoAuth)
       IN  /\ Rank(req[p].permission) >= Rank(anonymous.permission)
           /\ anonymous.isOwner => req[p].isOwner

\* an owner has read their own list through its view link
C10_Witness ==
  \E p \in Procs :
    /\ Done(p, "getList") /\ req[p].status = 200 /\ req[p].isOwner
    /\ req[p].pathId = req[p].list.viewId

\* C11: with reads of a list performed one after the other, a viewId once persisted is
\* never replaced, every read returns the persisted viewId, and a read of a list that
\* has a viewId generates nothing.
C11_BackfillIdempotent ==
  [][ /\ \A l \in ListIds :
           (Live(l) /\ lists[l].viewId # NoId /\ lists'[l] # NoDoc) => lists'[l].viewId = lists[l].viewId
      /\ \A p \in Procs :
           (req'[p].pc = "done" /\ req'[p].op = "getList" /\ req'[p].status = 200 /\ lists'[req'[p].lid] # NoDoc)
           => /\ req'[p].list.viewId # NoId
              /\ req'[p].list.viewId = lists'[req'[p].lid].viewId
      /\ \A p \in Procs :
           (req[p].pc = "idle" /\ req'[p].op = "getList" /\ req'[p].pc # "done"
              /\ lists[req'[p].lid].viewId # NoId)
           => req'[p].pc = "get_items" ]_vars

\* the second read of the legacy list has answered: the list carries a viewId that this
\* request did not write
C11_Witness ==
  \E p \in Procs :
    /\ Done(p, "getList") /\ req[p].status = 200 /\ req[p].lid = LegacyId
    /\ req[p].pathId = lists[LegacyId].shareId
    /\ ~req[p].backfilled
    /\ req[p].list.viewId = lists[LegacyId].viewId

\* C12: with reads running concurrently, a viewId once persisted for a list is never
\* replaced by a different value, and a read's response carries the persisted viewId.
C12_BackfillWritesOnce ==
  [][ /\ \A l \in ListIds :
           (Live(l) /\ lists[l].viewId # NoId /\ lists'[l] # NoDoc) => lists'[l].viewId = lists[l].viewId
      /\ \A p \in Procs :
           (req'[p].pc = "done" /\ req'[p].op = "getList" /\ req'[p].status = 200 /\ lists'[req'[p].lid] # NoDoc)
           => req'[p].list.viewId = lists'[req'[p].lid].viewId ]_vars

\* C13: the list carried by a successful response of a list endpoint has a valid
\* viewId, and a list that a successful list or item operation was addressed to has a
\* persisted viewId.
C13_ViewIdAlwaysPresent ==
  \A p \in Procs :
    (req[p].pc = "done" /\ req[p].status \in {200, 201})
    => /\ req[p].op \in {"createList", "getList", "patchList"} => isValidShareId(req[p].list.viewId)
       /\ (req[p].op \in {"getList", "patchList", "createItem", "patchItem", "deleteItem"} /\ Live(req[p].lid))
            => lists[req[p].lid].viewId # NoId

\* C14: a list's updatedAt changes only in a title update or in the list update that
\* follows an item create, update or delete; no step of a read changes it.
C14_ReadKeepsUpdatedAt ==
  [][ \A l \in ListIds :
        (Live(l) /\ lists'[l] # NoDoc /\ lists'[l].updatedAt # lists[l].updatedAt)
        => \E p \in Procs : /\ req[p].lid = l
                             /\ req'[p] # req[p]
                             /\ req[p].pc \in {"pl_update", "ci_touch", "pi_touch", "di_touch"} ]_vars

\* C15: for each key and each policy, a throttle call answers what the contract asks:
\* the first `limit` calls of a window are allowed, the next ones are refused, and a
\* call later than windowMs after the window was opened is allowed again.
C15_ThrottleBoundary ==
  /\ calls.last.allowed = calls.last.expected
  /\ \A ip \in Ips : calls.signup[ip].granted <= SignupLimit
  /\ \A e \in NormalEmails : calls.signin[e].granted <= SigninLimit

\* a signin key had its `limit` calls allowed and a further call refused, and the call
\* just made for it, after the window, was allowed; a signup key has used up its window
C15_Witness ==
  /\ calls.last.policy = "signin" /\ calls.last.allowed
  /\ \E e \in NormalEmails : calls.signin[e].reopened /\ calls.signin[e].granted = 1
  /\ \E ip \in Ips : calls.signup[ip].refused /\ signupAttempts[ip].count = SignupLimit

\* C16: a signin for an address with no account and a signin with a wrong password for
\* an existing account are answered alike (status, payload, no cookie), and a signin
\* changes the throttle when it arrives, before the users collection is read, in the
\* way checkSigninRateLimit fixes from the address alone.
C16_AntiEnumeration ==
  [][ /\ (calls'.noAccount # NoResponse /\ calls'.wrongPassword # NoResponse)
           => calls'.noAccount = calls'.wrongPassword
      /\ \A p \in Procs :
           (areq'[p].pc = "done" /\ areq'[p].op = "signin" /\ areq[p].pc \in {"si_find", "si_verify"}
              /\ areq'[p].cookie = 0)
           => Observed(areq'[p]) \in { calls'.noAccount, calls'.wrongPassword }
      /\ signinAttempts' # signinAttempts
           => \E p \in Procs : /\ areq[p].pc = "idle" /\ areq'[p].op = "signin"
                               /\ signinAttempts' = checkSigninRateLimit(signinAttempts, areq'[p].email, now).attempts
      /\ \A p \in Procs :
           (areq[p].pc = "idle" /\ areq'[p].op = "signin" /\ areq'[p].status # 400)
           => /\ signinAttempts' = checkSigninRateLimit(signinAttempts, areq'[p].email, now).attempts
              /\ (areq'[p].pc = "done") = ~checkSigninRateLimit(signinAttempts, areq'[p].email, now).allowed ]_vars

\* a signin has been answered for an address without an account, and now one with a
\* wrong password for the account created since
C16_Witness ==
  /\ calls.noAccount # NoResponse
  /\ \E p \in Procs : /\ areq[p].pc = "done" /\ areq[p].op = "signin" /\ areq[p].known = "present"
                      /\ areq[p].cookie = 0 /\ Observed(areq[p]) = calls.wrongPassword

\* C17: per normalized email and window, the signins that arrive while fewer than 5
\* were let through go on to the lookup and, failing there or on the password, are
\* answered 401 Invalid credentials; once 5 were let through, a signin is answered 429
\* on arrival, with no lookup, no password check and no cookie.
C17_SigninThrottled ==
  [][ \A p \in Procs :
        /\ (areq[p].pc = "idle" /\ areq'[p].op = "signin" /\ areq'[p].status # 400)
           => LET e == Expect(calls.signin[areq'[p].email], SigninLimit, SigninWindowMs, now)
              IN  IF e.allowed THEN areq'[p].pc = "si_find"
                  ELSE /\ areq'[p].pc = "done"
                       /\ areq'[p].status = 429
                       /\ areq'[p].known = "unread"
                       /\ areq'[p].cookie = 0
        /\ (areq[p].pc \in {"si_find", "si_verify"} /\ areq'[p].pc = "done" /\ areq'[p].cookie = 0)
           => areq'[p].status = 401 /\ areq'[p].error = "Invalid credentials" ]_vars

\* an account exists; five signins for its address were let through, wrong passwords
\* among them answered 401, and the sixth has just been answered 429
C17_Witness ==
  \E p \in Procs :
    /\ areq[p].pc = "done" /\ areq[p].op = "signin" /\ areq[p].status = 429 /\ areq[p].known = "unread"
    /\ calls.signin[areq[p].email].granted = SigninLimit
    /\ calls.signin[areq[p].email].refused
    /\ signinAttempts[areq[p].email].count = SigninLimit
    /\ \A q \in Procs \ {p} : areq[q].pc = "idle"
    /\ calls.wrongPassword = << 401, "Invalid credentials", 0 >>
    /\ calls.noAccount = NoResponse
    /\ UsersByEmail(areq[p].email) # {}

\* C18: no two documents of the users collection have the same normalized email.
C18_UniqueEmail ==
  \A u \in LiveUsers, v \in LiveUsers : users[u].email = users[v].email => u = v

\* C19: a createList request generates identifiers at most MaxAttempts times, whatever
\* makes it retry (the two identifiers being equal, or one of them being in the store);
\* it ends with 201 and an inserted list whose two identifiers differ and belong to no
\* other list, or with 500 and no list inserted.
C19_GenerationBounded ==
  [][\A p \in Procs :
       req'[p].op = "createList" =>
         /\ req'[p].passes <= MaxAttempts
         /\ (req[p].pc # "done" /\ req'[p].pc = "done" /\ req'[p].status = 201) =>
               LET id == req'[p].lid
               IN  /\ lists[id] = NoDoc /\ lists'[id] # NoDoc
                   /\ lists'[id].shareId # lists'[id].viewId
                   /\ \A l \in LiveLists : { lists[l].shareId, lists[l].viewId } \cap
                                            { lists'[id].shareId, lists'[id].viewId } = {}
         /\ (req[p].pc # "done" /\ req'[p].pc = "done" /\ req'[p].status = 500) =>
               lists' = lists /\ listCount' = listCount]_vars

C22_DeleteCascades ==
  \A l \in ListIds : ~Live(l) => \A i \in LiveItems : items[i].listId # l

\* the routes that take a list identifier in their path
PathOps == { "getList", "patchList", "deleteList", "createItem", "patchItem", "deleteItem" }

\* C23: a request to a list or item route whose path identifier is malformed is
\* answered 400 in the step it arrives in, with no document looked up and both
\* collections left as they were, whatever its credential and body.
C23_MalformedPathRejected ==
  [][\A p \in Procs :
       (req[p].pc = "idle" /\ req'[p].op \in PathOps /\ req'[p].pathId \in BadIds) =>
         /\ req'[p].pc = "done" /\ req'[p].status = 400
         /\ req'[p].list = NoDoc
         /\ lists' = lists /\ items' = items]_vars

\* C23, amended: as C23, except that DELETE of a list checks the credential first: a
\* request without a verified token is answered 401, also in the step it arrives in,
\* with no document looked up and both collections left as they were.
C23_MalformedPathRejectedAfterAuth ==
  [][\A p \in Procs :
       (req[p].pc = "idle" /\ req'[p].op \in PathOps /\ req'[p].pathId \in BadIds) =>
         /\ req'[p].pc = "done"
         /\ req'[p].status = IF req'[p].op = "deleteList" /\ ~req'[p].verified THEN 401 ELSE 400
         /\ req'[p].list = NoDoc
         /\ lists' = lists /\ items' = items]_vars

\* a DELETE of a list with a verified token and a malformed path identifier has been
\* answered 400
C23_Witness ==
  \E p \in Procs :
    /\ Done(p, "deleteList") /\ req[p].pathId \in BadIds /\ req[p].verified /\ req[p].status = 400
    /\ req[p].list = NoDoc

\* C24: once the session has signed out, a createList or deleteList request is answered
\* 401 in the step it arrives in, whether it carries the cookie the browser holds now
\* or the token the session was issued.
C24_SignoutInvalidates ==
  [][\A p \in Procs :
       (session.signedOut /\ req[p].pc = "idle" /\ req'[p].op \in {"createList", "deleteList"}) =>
         req'[p].pc = "done" /\ req'[p].status = 401]_vars

\* C25: every entry of the two throttle Maps has a counter from 1 to its policy's
\* limit, and a throttle call that answers false leaves both Maps as they were.
C25_CounterInRange ==
  [][/\ \A ip \in Ips :
          signupAttempts'[ip] # NoEntry =>
            signupAttempts'[ip].count >= 1 /\ signupAttempts'[ip].count <= SignupLimit
     /\ \A e \in NormalEmails :
          signinAttempts'[e] # NoEntry =>
            signinAttempts'[e].count >= 1 /\ signinAttempts'[e].count <= SigninLimit
     /\ (calls' # calls /\ ~calls'.last.allowed) =>
          signupAttempts' = signupAttempts /\ signinAttempts' = signinAttempts]_vars

\* the call just made was a signup call that was refused, with the key's counter at the
\* limit, while the signin key's counter is below its limit
C25_Witness ==
  /\ calls.last.policy = "signup" /\ ~calls.last.allowed
  /\ \E ip \in Ips : signupAttempts[ip].count = SignupLimit
  /\ \E e \in NormalEmails : signinAttempts[e].count >= 1 /\ signinAttempts[e].count < SigninLimit

\* C26: an entry whose window has not ended stays in its Map with the window end it
\* has, whatever call, sweep or passage of time happens; an entry that appears, or
\* that replaces one whose window has ended, has counter 1 and a window end windowMs
\* after the time of the call that made it; so every entry's window end is windowMs
\* after the call that opened its window.
C26_WindowFixed ==
  [][/\ \A ip \in Ips :
          LET e == signupAttempts[ip]
              f == signupAttempts'[ip]
          IN  /\ (e # NoEntry /\ e.resetAt >= now) => f # NoEntry /\ f.resetAt = e.resetAt
              /\ (f # NoEntry /\ f # e /\ (e = NoEntry \/ e.resetAt < now)) =>
                    f.count = 1 /\ f.resetAt = now + SignupWindowMs
              /\ f # NoEntry => f.resetAt = calls'.signup[ip].openedAt + SignupWindowMs
     /\ \A a \in NormalEmails :
          LET e == signinAttempts[a]
              f == signinAttempts'[a]
          IN  /\ (e # NoEntry /\ e.resetAt >= now) => f # NoEntry /\ f.resetAt = e.resetAt
              /\ (f # NoEntry /\ f # e /\ (e = NoEntry \/ e.resetAt < now)) =>
                    f.count = 1 /\ f.resetAt = now + SigninWindowMs
              /\ f # NoEntry => f.resetAt = calls'.signin[a].openedAt + SigninWindowMs]_vars

\* a signin window opened at some time after the start has had its limit of allowed
\* calls and a refused one at a later time, and its end is still 15 minutes after its
\* opening
C26_Witness ==
  \E a \in NormalEmails :
    /\ signinAttempts[a].count = SigninLimit
    /\ calls.signin[a].refused
    /\ calls.signin[a].openedAt > 0
    /\ now > calls.signin[a].openedAt
    /\ signinAttempts[a].resetAt = calls.signin[a].openedAt + SigninWindowMs
    /\ calls.last.policy = "signin" /\ ~calls.last.allowed

\* the times at which a later call can be made
LaterTimes == { t \in { a * QuarterHourMs + d : a \in 0..MaxAdvance, d \in 0..MaxTime } : t >= now }

\* C27: a sweep changes no answer of the throttles: whatever it removes, a call for any
\* key at any later time gets the same answer and leaves the same entry for that key
\* as it would have without the sweep, so the answers of all later calls are the same.
C27_SweepTransparent ==
  [][(calls' = calls /\ now' = now) =>
       /\ \A ip \in Ips, t \in LaterTimes :
            LET with == checkSignupRateLimit(signupAttempts', ip, t)
                without == checkSignupRateLimit(signupAttempts, ip, t)
            IN  with.allowed = without.allowed /\ with.attempts[ip] = without.attempts[ip]
       /\ \A email \in { e \in Emails : normalizeEmail(e) \in NormalEmails }, t \in LaterTimes :
            LET with == checkSigninRateLimit(signinAttempts', email, t)
                without == checkSigninRateLimit(signinAttempts, email, t)
            IN  /\ with.allowed = without.allowed
                /\ with.attempts[normalizeEmail(email)] = without.attempts[normalizeEmail(email)]]_vars

\* a sweep has removed the entry of a signup key that had reached its limit and been
\* refused
C27_Witness ==
  \E ip \in Ips :
    /\ calls.signup[ip].refused
    /\ signupAttempts[ip] = NoEntry
    /\ now > calls.signup[ip].openedAt + SignupWindowMs

\* C28: an update or delete of an item sent through the edit link of a list the item
\* does not belong to is answered 404, and the step leaves the items and the lists
\* (the item, its list, and the addressed list's updatedAt) as they were.
C28_CrossListIsolation ==
  [][\A p \in Procs :
       (/\ req[p].pc \in {"pi_update", "di_delete"}
        /\ req'[p] # req[p]
        /\ req[p].itemId \in LiveItems
        /\ items[req[p].itemId].listId # req[p].lid) =>
         /\ req'[p].pc = "done" /\ req'[p].status = 404
         /\ items' = items /\ lists' = lists]_vars

\* a DELETE of an item of one list, sent through the edit link of the other list, has
\* been answered 404 and the item is still there
C28_Witness ==
  \E p \in Procs :
    /\ Done(p, "deleteItem") /\ req[p].status = 404
    /\ req[p].pathId = lists[req[p].lid].shareId
    /\ req[p].itemId \in LiveItems
    /\ items[req[p].itemId].listId # req[p].lid

\* C29: no two items of one list have the same order, as long as orders come from
\* createItem alone.
C29_DistinctOrders ==
  \A i \in LiveItems, j \in LiveItems :
    (items[i].listId = items[j].listId /\ items[i].order = items[j].order) => i = j

\* C30: no step makes the updatedAt of a list smaller than it was.
C30_UpdatedAtMonotone ==
  [][\A l \in ListIds :
       (lists[l] # NoDoc /\ lists'[l] # NoDoc) => lists'[l].updatedAt >= lists[l].updatedAt]_vars

====
